---- MODULE Spec2Model ----
(***************************************************************************)
(* FaceGuard: the debounced capture trigger (src/lib/triggerState.ts and   *)
(* the trigger-capture routes) and the face recognition backend            *)
(* (src/lib/faceRecognitionServer.js and its variant with the trigger      *)
(* handler).                                                               *)
(*                                                                         *)
(* Time is in milliseconds.  Date.now() is modelled as a non-decreasing    *)
(* clock `now`.                                                            *)
(***************************************************************************)
EXTENDS Integers, Sequences, FiniteSets, Bags, TLC

(***************************************************************************)
(* Program constants                                                       *)
(***************************************************************************)
DEBOUNCE_TIME == 3000
\* const RECOGNITION_THRESHOLD = 0.45, in hundredths
RECOGNITION_THRESHOLD == 45
\* let minDistance = Infinity: larger than every distance of the model
Infinity == 1000000

(***************************************************************************)
(* Bounds of the model                                                     *)
(***************************************************************************)
\* value of Date.now() when the processes start
StartTime == 10000
\* the clock is explored up to StartTime + Horizon
Horizon == 6500
\* amounts by which the clock advances between two handler runs
ClockSteps == {500, 2999}
\* number of trigger-capture calls recorded in the call log
MaxCalls == 3
\* number of requests the backend has received and not yet answered
MaxInFlight == 1
\* requests handled at the same time where concurrency is the subject
MaxConcurrent == 2

\* values of Math.random().toString(36).substring(2); "7" is an integer-like
\* property key
Ids == {"7", "k3"}
ArrayIndexIds == {"7"}
Names == {"Alice", "Bob"}
\* face descriptors, coordinates in hundredths; all pairwise Euclidean
\* distances are whole hundredths: 0, 36, 45, 81, 108, 117, 135
Descriptors == {<<0, 0>>, <<45, 0>>, <<81, 0>>, <<0, 108>>}
\* websocket observers
Observers == {"o1", "o2"}

VARIABLES
  now,                  \* Date.now()
  lastTrigger,          \* triggerState.ts: let lastTrigger
  lastTriggerTimestamp, \* backend server: let lastTriggerTimestamp
  calls,                \* log of the calls to the Next.js routes: what was
                        \* called, when, and what it answered with
  phase,                \* backend process: "starting", "listening", "exited"
  registeredUsers,      \* let registeredUsers = new Map(), in iteration order
  usersFile,            \* face-data/users.json
  wssClients,           \* wss.clients: readyState of each observer's socket
  inFlight,             \* requests received whose handler awaits detection
  out,                  \* what the latest handler run answered and sent
  lastTriggerRef,       \* Camera.tsx: lastTriggerRef.current
  pollers,              \* Camera.tsx: the poll loop of each run of the effect
  captures,             \* the calls of captureImage made by the poll loops
  lastAttemptTime,      \* FaceVerification.tsx: the state lastAttemptTime
  attempts,             \* number of requests handleVerify sent to /api/recognize
  listeners,            \* 'capture-requested' listeners on eventEmitter
  streams,              \* the event streams of GET /api/events
  announced             \* ids of the user_registered events the observers'
                        \* pages have received

triggerVars == <<now, lastTrigger, lastTriggerTimestamp, calls>>
serverVars == <<phase, registeredUsers, usersFile, wssClients, inFlight, out>>
clientVars == <<lastTriggerRef, pollers, captures, lastAttemptTime, attempts,
                listeners, streams, announced>>
vars == <<now, lastTrigger, lastTriggerTimestamp, calls,
          phase, registeredUsers, usersFile, wssClients, inFlight, out,
          lastTriggerRef, pollers, captures, lastAttemptTime, attempts,
          listeners, streams, announced>>

(***************************************************************************)
(* triggerState.ts                                                         *)
(***************************************************************************)
\* setTrigger with the comparison  now - lastTrigger > DEBOUNCE_TIME
setTrigger_strict(last, t) ==
  IF t - last > DEBOUNCE_TIME THEN t ELSE last

\* setTrigger without the debounce test
setTrigger_always(last, t) == t

\* setTrigger(): the value of lastTrigger after the call made at time t with
\* lastTrigger = last
setTrigger(last, t) ==
  IF t - last >= DEBOUNCE_TIME THEN t ELSE last

\* setTrigger returning `now` on both branches
setTriggerReturn_now(last, t) == t

\* setTrigger(): the value returned; both branches return lastTrigger as it
\* is after the call
setTriggerReturn(last, t) == setTrigger(last, t)

\* getTrigger(): returns lastTrigger
getTrigger(last) == last

Call(op, at, ret) == [op |-> op, at |-> at, ret |-> ret]

TriggerInit ==
  /\ now = StartTime
  /\ lastTrigger = 0
  /\ lastTriggerTimestamp = 0
  /\ calls = << >>

\* the clock advances
Tick ==
  /\ \E d \in ClockSteps :
       /\ now + d <= StartTime + Horizon
       /\ now' = now + d
  /\ UNCHANGED <<lastTrigger, lastTriggerTimestamp, calls>>
  /\ UNCHANGED serverVars
  /\ UNCHANGED clientVars

\* POST /api/trigger-capture (Next.js route): timestamp = setTrigger()
POST_triggerCapture ==
  /\ Len(calls) < MaxCalls
  /\ lastTrigger' = setTrigger(lastTrigger, now)
  /\ calls' = Append(calls, Call("POST", now, setTriggerReturn(lastTrigger, now)))
  /\ UNCHANGED <<now, lastTriggerTimestamp>>
  /\ UNCHANGED serverVars
  /\ UNCHANGED clientVars

\* GET /api/trigger-capture (Next.js route): { timestamp: getTrigger() }
GET_triggerCapture ==
  /\ Len(calls) < MaxCalls
  /\ calls' = Append(calls, Call("GET", now, getTrigger(lastTrigger)))
  /\ UNCHANGED <<now, lastTrigger, lastTriggerTimestamp>>
  /\ UNCHANGED serverVars
  /\ UNCHANGED clientVars

\* GET /api/trigger-capture on the backend server: triggerCaptureHandler
triggerCaptureHandler ==
  /\ Len(calls) < MaxCalls
  /\ lastTriggerTimestamp' = now
  /\ calls' = Append(calls, Call("BACKEND_GET", now, lastTriggerTimestamp'))
  /\ UNCHANGED <<now, lastTrigger>>
  /\ UNCHANGED serverVars
  /\ UNCHANGED clientVars

(***************************************************************************)
(* faceRecognitionServer.js: data                                          *)
(***************************************************************************)
\* null / undefined, and the empty object: no entries
Null == << >>

\* what a request carries as `image`: nothing, data that loadImage rejects,
\* a picture in which the detector finds no face, a picture of a face with
\* the descriptor the detector computes for it
Images ==
  {[kind |-> "missing"], [kind |-> "undecodable"], [kind |-> "noface"]}
    \cup {[kind |-> "face", descriptor |-> d] : d \in Descriptors}

\* faceapi.detectSingleFace(canvas).withFaceLandmarks(true).withFaceDescriptor()
detectSingleFace(image) ==
  IF image.kind = "face" THEN <<image.descriptor>> ELSE Null

\* one entry of users.json / of the registeredUsers map:
\* userId -> { name, descriptor }
Entry(id, name, descriptor) ==
  [id |-> id, name |-> name, descriptor |-> descriptor]

HasKey(users, id) == \E i \in 1..Len(users) : users[i].id = id

\* existingUsers[userId] = { name, descriptor }, in the key order that
\* Object.entries and JSON.stringify follow: an existing key keeps its place,
\* a new integer-like key goes before the string keys (Ids has one such key),
\* any other new key goes last
SetProperty(users, e) ==
  IF HasKey(users, e.id)
    THEN [i \in 1..Len(users) |-> IF users[i].id = e.id THEN e ELSE users[i]]
    ELSE IF e.id \in ArrayIndexIds
      THEN <<e>> \o users
      ELSE Append(users, e)

\* one member of the JSON text of users.json:
\* "key": { "name": ..., "descriptor": [ ... ] }
Member(key, name, descriptor) == <<key, name, descriptor>>

\* the text without the descriptor arrays
JSONstringify_names(users) ==
  [i \in 1..Len(users) |-> Member(users[i].id, users[i].name, Null)]

\* JSON.stringify(existingUsers, null, 2): one member for each property, in
\* property order
JSONstringify(users) ==
  [i \in 1..Len(users) |->
     Member(users[i].id, users[i].name, users[i].descriptor)]

\* the members of a JSON text from member i on, set one after the other as
\* properties of obj
RECURSIVE parseFrom(_, _, _)
parseFrom(text, i, obj) ==
  IF i > Len(text) THEN obj
  ELSE parseFrom(text, i + 1,
                 SetProperty(obj, Entry(text[i][1], text[i][2], text[i][3])))

\* a parse that stops after the first member
JSONparse_first(text) ==
  IF Len(text) = 0 THEN Null ELSE parseFrom(<<text[1]>>, 1, Null)

\* JSON.parse(fileContent), then Object.entries of the result: the text's
\* members become properties in the order of the text, a repeated key keeps
\* its last value, integer-like keys come first
JSONparse(text) == parseFrom(text, 1, Null)

\* users.json: missing, empty, not JSON, or the JSON text of an object
File(kind, text) == [kind |-> kind, text |-> text]
EmptyObjectFile == File("ok", Null)

\* a users.json written by hand, its keys not in property order
HandWrittenFile ==
  File("ok", <<Member("k3", "Bob", <<0, 108>>), Member("7", "Bob", <<81, 0>>)>>)

\* a read that was made before the other requests wrote: it sees no user
readExistingUsers_stale(file) == Null

\* fs.existsSync + JSON.parse(fs.readFileSync(usersPath)) in registerHandler:
\* existingUsers stays {} when the file is missing or does not parse
readExistingUsers(file) ==
  IF file.kind = "ok" THEN JSONparse(file.text) ELSE Null

\* fs.writeFileSync(usersPath, JSON.stringify(existingUsers, null, 2)):
\* it succeeds, or throws and leaves the file as it was
WriteOutcomes == {"ok", "failed"}
writeFileSync(file, users, outcome) ==
  IF outcome = "ok" THEN File("ok", JSONstringify(users)) ELSE file

\* registeredUsers.size === 0 never holding
registryIsEmpty_never(users) == FALSE

\* registeredUsers.size === 0
registryIsEmpty(users) == Len(users) = 0

(***************************************************************************)
(* faceRecognitionServer.js: the matcher                                   *)
(***************************************************************************)
RECURSIVE SumSquares(_, _, _)
SumSquares(a, b, i) ==
  IF i > Len(a) THEN 0
  ELSE (a[i] - b[i]) * (a[i] - b[i]) + SumSquares(a, b, i + 1)

RECURSIVE SumAbs(_, _, _)
SumAbs(a, b, i) ==
  IF i > Len(a) THEN 0
  ELSE (IF a[i] >= b[i] THEN a[i] - b[i] ELSE b[i] - a[i]) + SumAbs(a, b, i + 1)

\* Math.sqrt on the squares the descriptors of the model produce
sqrt(k, upper) == CHOOSE r \in 0..upper : r * r = k

\* faceapi.euclideanDistance(arr1, arr2), in hundredths
euclideanDistance(a, b) == sqrt(SumSquares(a, b, 1), SumAbs(a, b, 1))

\* the loop's test with <= in place of <
isCloser_orEqual(distance, minDistance) == distance <= minDistance

\* if (distance < minDistance)
isCloser(distance, minDistance) == distance < minDistance

\* for (const [userId, userData] of registeredUsers.entries()) { ... }
\* from entry i on, with the loop's variables in acc
RECURSIVE scan(_, _, _, _)
scan(users, probe, i, acc) ==
  IF i > Len(users) THEN acc
  ELSE LET distance == euclideanDistance(probe, users[i].descriptor)
       IN scan(users, probe, i + 1,
               IF isCloser(distance, acc.minDistance)
                 THEN [minDistance |-> distance, matchedUser |-> <<users[i]>>]
                 ELSE acc)

\* let minDistance = Infinity; let matchedUser = null; and the loop
nearest(users, probe) ==
  scan(users, probe, 1, [minDistance |-> Infinity, matchedUser |-> Null])

\* the decision with < in place of <=
isAccepted_strict(m) ==
  m.minDistance < RECOGNITION_THRESHOLD /\ m.matchedUser # Null

\* if (minDistance <= RECOGNITION_THRESHOLD && matchedUser)
isAccepted(m) ==
  m.minDistance <= RECOGNITION_THRESHOLD /\ m.matchedUser # Null

\* confidence without the "1 -"
acceptConfidence_ratio(minDistance) ==
  (100 * minDistance) \div RECOGNITION_THRESHOLD

\* confidence: 1 - (minDistance / RECOGNITION_THRESHOLD), in hundredths
acceptConfidence(minDistance) ==
  100 - (100 * minDistance) \div RECOGNITION_THRESHOLD

\* confidence without the test minDistance > 1
rejectConfidence_unclamped(minDistance) == 100 - minDistance

\* confidence: minDistance > 1 ? 0 : 1 - minDistance, in hundredths
rejectConfidence(minDistance) ==
  IF minDistance > 100 THEN 0 ELSE 100 - minDistance

(***************************************************************************)
(* faceRecognitionServer.js: the process, its observers and its handlers   *)
(***************************************************************************)
\* a handler run: req.body, res.status(status).json(body) and the messages
\* sent to observers
Outcome(handler, req, status, body, sends) ==
  [handler |-> handler, req |-> req, status |-> status, body |-> body,
   sent |-> BagToSet(sends), sends |-> sends]
NoOutcome == [handler |-> "none"]

\* what the start of the process logged: 'All models loaded successfully' or
\* 'Error loading models:'
Started(modelsLoaded) ==
  [handler |-> "initializeFaceAPI", modelsLoaded |-> modelsLoaded]

\* { type: 'user_registered', user: { id: userId, name } }
userRegistered(userId, name) ==
  [type |-> "user_registered", user |-> [id |-> userId, name |-> name]]

\* the event with the matched record in it
accessGranted_withUser(matchedUser) ==
  [type |-> "access_attempt", success |-> TRUE,
   message |-> "Access granted to " \o matchedUser.name,
   user |-> matchedUser]

\* the event without the name
accessGranted_anonymous(matchedUser) ==
  [type |-> "access_attempt", success |-> TRUE, message |-> "Access granted"]

\* { type: 'access_attempt', success: true,
\*   message: `Access granted to ${matchedUser.name}` }
accessGranted(matchedUser) ==
  [type |-> "access_attempt", success |-> TRUE,
   message |-> "Access granted to " \o matchedUser.name]

\* the denial announced as a success
accessDenied_granted ==
  [type |-> "access_attempt", success |-> TRUE,
   message |-> "Access denied: Face not recognized"]

\* { type: 'access_attempt', success: false,
\*   message: 'Access denied: Face not recognized' }
accessDenied ==
  [type |-> "access_attempt", success |-> FALSE,
   message |-> "Access denied: Face not recognized"]

\* a fan-out that sends to every client, whatever its readyState
Broadcast_all(msg) ==
  [d \in {[to |-> o, msg |-> msg] : o \in Observers} |-> 1]

\* wss.clients.forEach(client => { if (client.readyState === 1) client.send(msg) }):
\* the number of client.send calls for each client and message
Broadcast(msg) ==
  [d \in {[to |-> o, msg |-> msg] :
            o \in {c \in Observers : wssClients[c] = 1}} |-> 1]

ServerInit ==
  /\ phase = "starting"
  /\ registeredUsers = Null
  /\ usersFile \in {File("missing", Null), File("empty", Null),
                    File("malformed", Null), EmptyObjectFile, HandWrittenFile}
  /\ wssClients = [o \in Observers |-> 3]
  /\ inFlight = [register |-> 0, recognize |-> 0]
  /\ out = NoOutcome

\* initializeFaceAPI().then(() => app.listen(PORT)).catch(() => process.exit(1));
\* write is what happens to fs.writeFileSync(usersPath, '{}'): when it throws
\* in the inner catch, the outer catch rethrows and the process exits
initializeFaceAPI(modelsLoaded, write) ==
  /\ phase = "starting"
  /\ IF ~modelsLoaded
       THEN /\ phase' = "exited"
            /\ UNCHANGED <<registeredUsers, usersFile>>
       ELSE IF usersFile.kind = "ok"
       THEN /\ phase' = "listening"
            /\ registeredUsers' = JSONparse(usersFile.text)
            /\ UNCHANGED usersFile
       ELSE IF write = "ok"
       THEN /\ phase' = "listening"
            /\ registeredUsers' = Null
            /\ usersFile' = EmptyObjectFile
       ELSE /\ phase' = "exited"
            /\ registeredUsers' = Null
            /\ UNCHANGED usersFile
  /\ out' = Started(modelsLoaded)
  /\ UNCHANGED <<wssClients, inFlight>>
  /\ UNCHANGED triggerVars
  /\ UNCHANGED clientVars

\* the process ends and is started again: module state is built anew, the
\* file stays
Restart ==
  /\ phase \in {"listening", "exited"}
  /\ phase' = "starting"
  /\ registeredUsers' = Null
  /\ wssClients' = [o \in Observers |-> 3]
  /\ inFlight' = [register |-> 0, recognize |-> 0]
  /\ out' = NoOutcome
  /\ UNCHANGED usersFile
  /\ UNCHANGED triggerVars
  /\ UNCHANGED clientVars

\* an observer's socket opens (readyState 1), starts closing (2), is gone (3)
ObserverConnects(o) ==
  /\ phase # "exited"
  /\ wssClients[o] = 3
  /\ wssClients' = [wssClients EXCEPT ![o] = 1]
  /\ UNCHANGED <<phase, registeredUsers, usersFile, inFlight, out>>
  /\ UNCHANGED triggerVars
  /\ UNCHANGED clientVars

ObserverCloses(o) ==
  /\ wssClients[o] \in {1, 2}
  /\ wssClients' = [wssClients EXCEPT ![o] = @ + 1]
  /\ UNCHANGED <<phase, registeredUsers, usersFile, inFlight, out>>
  /\ UNCHANGED triggerVars
  /\ UNCHANGED clientVars

\* app.post(...): a request arrives; its handler runs up to the await of the
\* detection
Receive(handler) ==
  /\ phase = "listening"
  /\ inFlight.register + inFlight.recognize < MaxInFlight
  /\ inFlight' = [inFlight EXCEPT ![handler] = @ + 1]
  /\ UNCHANGED <<phase, registeredUsers, usersFile, wssClients, out>>
  /\ UNCHANGED triggerVars
  /\ UNCHANGED clientVars

\* app.post(...): a request arrives while other requests await their
\* detection
ReceiveConcurrently(handler) ==
  /\ phase = "listening"
  /\ inFlight.register + inFlight.recognize < MaxConcurrent
  /\ inFlight' = [inFlight EXCEPT ![handler] = @ + 1]
  /\ UNCHANGED <<phase, registeredUsers, usersFile, wssClients, out>>
  /\ UNCHANGED triggerVars
  /\ UNCHANGED clientVars

\* the test with the image left out
missingFields_nameOnly(name, image) == name = ""

\* if (!name || !image)
missingFields(name, image) == name = "" \/ image.kind = "missing"

\* a handler run together with the number of calls it made to the detector
Detecting(o, detections) == o @@ [detections |-> detections]

\* a handler run together with what it logged about the write of users.json:
\* 'Saved user data successfully' or 'Error saving user data:'
Logging(o, written) == o @@ [written |-> written]

\* registerHandler, from the resumption after the last await to the response;
\* userId is the value of Math.random().toString(36).substring(2), write is
\* what happens to fs.writeFileSync
registerHandler(name, image) ==
  /\ phase = "listening"
  /\ inFlight.register > 0
  /\ inFlight' = [inFlight EXCEPT !.register = @ - 1]
  /\ IF missingFields(name, image)
       THEN /\ out' = Detecting(
                        Outcome("register", [name |-> name, image |-> image], 400,
                          [error |-> "Missing required fields",
                           details |-> "Both name and image are required"], EmptyBag),
                        0)
            /\ UNCHANGED <<registeredUsers, usersFile>>
       ELSE IF image.kind = "undecodable"
       THEN /\ out' = Detecting(
                        Outcome("register", [name |-> name, image |-> image], 500,
                          [error |-> "Registration failed",
                           details |-> "error.message"], EmptyBag),
                        0)
            /\ UNCHANGED <<registeredUsers, usersFile>>
       ELSE IF detectSingleFace(image) = Null
       THEN /\ out' = Detecting(
                        Outcome("register", [name |-> name, image |-> image], 400,
                          [error |-> "No face detected",
                           details |-> "Could not detect a face in the provided image"], EmptyBag),
                        1)
            /\ UNCHANGED <<registeredUsers, usersFile>>
       ELSE \E userId \in Ids, write \in WriteOutcomes :
            LET detection == detectSingleFace(image)[1]
                existingUsers ==
                  SetProperty(readExistingUsers(usersFile),
                              Entry(userId, name, detection))
            IN /\ usersFile' = writeFileSync(usersFile, existingUsers, write)
               /\ registeredUsers' = existingUsers
               /\ out' = Logging(Detecting(
                           Outcome("register", [name |-> name, image |-> image], 200,
                             [success |-> TRUE,
                              user |-> [id |-> userId, name |-> name]],
                             Broadcast(userRegistered(userId, name))),
                           1), write = "ok")
  /\ UNCHANGED <<phase, wssClients>>
  /\ UNCHANGED triggerVars
  /\ UNCHANGED clientVars

\* a verification that learns: on a match it stores the probe as the matched
\* user's descriptor, in the registry and in users.json
recognizeHandler_adaptive(image) ==
  /\ phase = "listening"
  /\ inFlight.recognize > 0
  /\ inFlight' = [inFlight EXCEPT !.recognize = @ - 1]
  /\ IF detectSingleFace(image) = Null \/ registryIsEmpty(registeredUsers)
       THEN /\ out' = Outcome("recognize", [image |-> image], 400,
                        [error |-> "No face detected"], EmptyBag)
            /\ UNCHANGED <<registeredUsers, usersFile>>
       ELSE LET m == nearest(registeredUsers, detectSingleFace(image)[1])
                learned == SetProperty(registeredUsers,
                             Entry(m.matchedUser[1].id, m.matchedUser[1].name,
                                   detectSingleFace(image)[1]))
            IN /\ out' = Outcome("recognize", [image |-> image], 200,
                           [success |-> isAccepted(m),
                            confidence |-> rejectConfidence(m.minDistance)], EmptyBag)
               /\ registeredUsers' = IF isAccepted(m) THEN learned
                                     ELSE registeredUsers
               /\ usersFile' = IF isAccepted(m)
                                 THEN File("ok", JSONstringify(learned))
                               ELSE usersFile
  /\ UNCHANGED <<phase, wssClients>>
  /\ UNCHANGED triggerVars
  /\ UNCHANGED clientVars

\* recognizeHandler, from the resumption after the last await to the response
recognizeHandler(image) ==
  /\ phase = "listening"
  /\ inFlight.recognize > 0
  /\ inFlight' = [inFlight EXCEPT !.recognize = @ - 1]
  /\ IF image.kind = "missing"
       THEN out' = Outcome("recognize", [image |-> image], 400,
                     [error |-> "Missing image",
                      details |-> "An image is required for recognition"], EmptyBag)
       ELSE IF image.kind = "undecodable"
       THEN out' = Outcome("recognize", [image |-> image], 500,
                     [error |-> "Recognition failed",
                      details |-> "error.message"], EmptyBag)
       ELSE IF detectSingleFace(image) = Null
       THEN out' = Outcome("recognize", [image |-> image], 400,
                     [error |-> "No face detected",
                      details |-> "Could not detect a face in the provided image"], EmptyBag)
       ELSE IF registryIsEmpty(registeredUsers)
       THEN out' = Outcome("recognize", [image |-> image], 400,
                     [error |-> "No registered users",
                      details |-> "No users are registered in the system"], EmptyBag)
       ELSE LET m == nearest(registeredUsers, detectSingleFace(image)[1])
            IN IF isAccepted(m)
                 THEN out' = Outcome("recognize", [image |-> image], 200,
                               [success |-> TRUE,
                                user |-> [id |-> m.matchedUser[1].id,
                                          name |-> m.matchedUser[1].name],
                                confidence |-> acceptConfidence(m.minDistance)],
                               Broadcast(accessGranted(m.matchedUser[1])))
                 ELSE out' = Outcome("recognize", [image |-> image], 200,
                               [success |-> FALSE,
                                message |-> "Face not recognized",
                                confidence |-> rejectConfidence(m.minDistance)],
                               Broadcast(accessDenied))
  /\ UNCHANGED <<phase, registeredUsers, usersFile, wssClients>>
  /\ UNCHANGED triggerVars
  /\ UNCHANGED clientVars

(***************************************************************************)
(* app/api/recognize/route.ts, app/api/register/route.ts: the routes in     *)
(* front of the backend                                                    *)
(***************************************************************************)
\* fetch rejects with TypeError 'fetch failed': the backend is not reachable
FetchFailed == [error |-> "fetch failed"]

\* await response.text(): the body as the backend sent it, as text
responseText(body) == <<"text", body>>

\* a route that takes no answer of the backend for a success
responseOk_never(status) == FALSE

\* response.ok
responseOk(status) == status \in 200..299

\* fetch rejects when AbortSignal.timeout(30000) fires: a DOMException
\* named TimeoutError
FetchTimeout == [error |-> "The operation was aborted due to timeout"]

\* await request.json() throws: the caller's body is no JSON
NotParsed == [error |-> "Unexpected end of JSON input"]

\* a test that takes every rejection of the fetch for an unreachable backend
isFetchFailed_anyRejection(response) ==
  response \in {FetchFailed, FetchTimeout}

\* error instanceof TypeError && error.message.includes('fetch failed')
isFetchFailed(response) == response = FetchFailed

\* POST of /api/recognize, given what the fetch of the backend's
\* /api/recognize gave
POST_recognize(response) ==
  IF isFetchFailed(response)
    THEN [status |-> 503,
          body |-> [error |-> "Face recognition server is not running. Please start the server."]]
  ELSE IF response = FetchTimeout
    THEN [status |-> 500, body |-> [error |-> FetchTimeout.error]]
  ELSE IF ~responseOk(response.status)
    THEN [status |-> 500, body |-> [error |-> responseText(response.body)]]
  ELSE [status |-> 200, body |-> response.body]

\* POST of /api/register, given what the fetch of the backend's
\* /api/register gave
POST_register(response) ==
  IF isFetchFailed(response)
    THEN [status |-> 503,
          body |-> [error |-> "Face recognition server is not running. Please start the server."]]
  ELSE IF response = FetchTimeout
    THEN [status |-> 500, body |-> [error |-> FetchTimeout.error]]
  ELSE IF ~responseOk(response.status)
    THEN [status |-> 500, body |-> [error |-> responseText(response.body)]]
  ELSE [status |-> 200, body |-> response.body]

\* what the route's fetch of the backend can give: a refused connection
\* while the backend does not listen, the backend's answer to a request of
\* this kind, the timeout while the request is in the backend's hands
Fetchable(handler) ==
  IF phase # "listening" THEN {FetchFailed}
  ELSE (IF out.handler = handler THEN {out} ELSE {})
         \cup (IF inFlight[handler] > 0 THEN {FetchTimeout} ELSE {})

\* a call of a route: its answer, the number of fetches it made and what
\* the fetch gave
Fronted(answer, fetches, fetched) ==
  [status |-> answer.status, body |-> answer.body,
   fetches |-> fetches, fetched |-> fetched]

\* POST of app/api/recognize/route.ts as a step; parsed tells whether
\* request.json() gave the caller's data
recognizeRoute(parsed) ==
  /\ IF ~parsed
       THEN calls' = <<Call("recognize", now,
                            Fronted([status |-> 500,
                                     body |-> [error |-> NotParsed.error]],
                                    0, NotParsed))>>
       ELSE \E fetched \in Fetchable("recognize") :
              calls' = <<Call("recognize", now,
                              Fronted(POST_recognize(fetched), 1, fetched))>>
  /\ UNCHANGED <<now, lastTrigger, lastTriggerTimestamp>>
  /\ UNCHANGED serverVars
  /\ UNCHANGED clientVars

\* POST of app/api/register/route.ts as a step
registerRoute(parsed) ==
  /\ IF ~parsed
       THEN calls' = <<Call("register", now,
                            Fronted([status |-> 500,
                                     body |-> [error |-> NotParsed.error]],
                                    0, NotParsed))>>
       ELSE \E fetched \in Fetchable("register") :
              calls' = <<Call("register", now,
                              Fronted(POST_register(fetched), 1, fetched))>>
  /\ UNCHANGED <<now, lastTrigger, lastTriggerTimestamp>>
  /\ UNCHANGED serverVars
  /\ UNCHANGED clientVars

(***************************************************************************)
(* components/Camera.tsx, components/FaceVerification.tsx: the verify page *)
(* polls the trigger gate and hands each capture to handleVerify           *)
(***************************************************************************)
\* useState<Date | null>(null): no attempt was made yet
NoAttempt == 0
\* handleVerify: now.getTime() - lastAttemptTime.getTime() < 3000
AttemptInterval == 3000
\* runs of the polling effect: the mount and the re-runs
MaxEffectRuns == 2

\* one run of the effect of Camera.tsx: its flag isPolling, the
\* lastAttemptTime that the handleVerify behind its captureImage closes over,
\* and where its loop is: ended << >>, waiting for its timer <<"timer">>,
\* awaiting fetch('/api/trigger-capture') <<"pending">>, answered with
\* <<"json", timestamp>>
Poller(isPolling, closedOver, response) ==
  [isPolling |-> isPolling, lastAttemptTime |-> closedOver,
   response |-> response]

\* a run whose loop has ended: nothing of it is used again
Ended == Poller(FALSE, NoAttempt, << >>)

\* the cleanup of a run: isPolling = false; clearTimeout(pollTimer).  A fetch
\* that is under way is not aborted
cleanup(p) ==
  IF p.response \in {<< >>, <<"timer">>}
    THEN Ended
    ELSE Poller(FALSE, p.lastAttemptTime, p.response)

\* the comparison with >= in place of >
isNewTrigger_atLeast(timestamp, last) == timestamp # 0 /\ timestamp >= last

\* data.timestamp && data.timestamp > lastTriggerRef.current
isNewTrigger(timestamp, last) == timestamp # 0 /\ timestamp > last

\* handleVerify goes on to fetch('/api/recognize') unless
\* lastAttemptTime && now.getTime() - lastAttemptTime.getTime() < 3000
handleVerifySends(last, t) == ~(last # NoAttempt /\ t - last < AttemptInterval)

Capture(timestamp) == [timestamp |-> timestamp]

ClientInit ==
  /\ lastTriggerRef = 0
  /\ pollers = << >>
  /\ captures = << >>
  /\ lastAttemptTime = NoAttempt
  /\ attempts = 0
  /\ listeners = << >>
  /\ streams = << >>
  /\ announced = {}

\* the ESP32's loop() on a press of the button: http.POST to
\* /api/trigger-capture, whose POST runs setTrigger()
buttonPressed ==
  /\ lastTrigger' = setTrigger(lastTrigger, now)
  /\ UNCHANGED <<now, lastTriggerTimestamp, calls>>
  /\ UNCHANGED serverVars
  /\ UNCHANGED clientVars

\* the polling effect runs in verify mode: on mount, and again after every
\* render that changes captureImage (handleVerify is a new function in every
\* render of FaceVerification, so each of its state changes re-runs the
\* effect).  The cleanup of the previous run comes first; the new run calls
\* checkTrigger(), which starts its fetch
useEffect_poll ==
  /\ Len(pollers) < MaxEffectRuns
  /\ pollers' = Append([i \in 1..Len(pollers) |-> cleanup(pollers[i])],
                       Poller(TRUE, lastAttemptTime, <<"pending">>))
  /\ UNCHANGED <<lastTriggerRef, captures, lastAttemptTime, attempts,
                 listeners, streams, announced>>
  /\ UNCHANGED triggerVars
  /\ UNCHANGED serverVars

\* setTimeout(checkTrigger, ...) fires: if (!isPolling) return; then the
\* fetch starts.  The delays of 1000 and 2000 ms are not modelled: the timer
\* may fire at any time
pollTimer(l) ==
  /\ l \in 1..Len(pollers)
  /\ pollers[l].response = <<"timer">>
  /\ pollers' = [pollers EXCEPT ![l] =
                   IF @.isPolling
                     THEN Poller(TRUE, @.lastAttemptTime, <<"pending">>)
                     ELSE Ended]
  /\ UNCHANGED <<lastTriggerRef, captures, lastAttemptTime, attempts,
                 listeners, streams, announced>>
  /\ UNCHANGED triggerVars
  /\ UNCHANGED serverVars

\* await fetch('/api/trigger-capture'): the route's GET answers
\* { timestamp: getTrigger() } as the gate is when it runs
fetchTrigger(l) ==
  /\ l \in 1..Len(pollers)
  /\ pollers[l].response = <<"pending">>
  /\ pollers' = [pollers EXCEPT ![l].response =
                   <<"json", getTrigger(lastTrigger)>>]
  /\ UNCHANGED <<lastTriggerRef, captures, lastAttemptTime, attempts,
                 listeners, streams, announced>>
  /\ UNCHANGED triggerVars
  /\ UNCHANGED serverVars

\* checkTrigger() resumes after its awaits, in the run l of the effect, at any
\* time after the answer was made.  When the fetch or response.json() has
\* failed, the catch logs and schedules the next poll.  Otherwise, on a new
\* timestamp it records it and calls captureImage(), which (the camera is
\* streaming) hands the frame to the handleVerify of the render the run
\* belongs to; handleVerify returns at once or calls setLastAttemptTime(now)
\* and sends the request.  Then the next poll is scheduled if isPolling
\* still holds
checkTrigger(l, failed) ==
  /\ l \in 1..Len(pollers)
  /\ IF failed
       THEN /\ pollers[l].response = <<"pending">>
            /\ UNCHANGED <<lastTriggerRef, captures, lastAttemptTime, attempts>>
       ELSE /\ Len(pollers[l].response) = 2
            /\ LET timestamp == pollers[l].response[2]
                   isNew == isNewTrigger(timestamp, lastTriggerRef)
                   sends == /\ isNew
                            /\ handleVerifySends(pollers[l].lastAttemptTime, now)
               IN /\ lastTriggerRef' = IF isNew THEN timestamp ELSE lastTriggerRef
                  /\ captures' = IF isNew THEN Append(captures, Capture(timestamp))
                                          ELSE captures
                  /\ lastAttemptTime' = IF sends THEN now ELSE lastAttemptTime
                  /\ attempts' = IF sends THEN attempts + 1 ELSE attempts
  /\ pollers' = [pollers EXCEPT ![l] =
                   IF @.isPolling
                     THEN Poller(TRUE, @.lastAttemptTime, <<"timer">>)
                     ELSE Ended]
  /\ UNCHANGED <<listeners, streams, announced>>
  /\ UNCHANGED triggerVars
  /\ UNCHANGED serverVars

\* the verify page, its trigger source and the trigger gate
ClientNext ==
  \/ Tick
  \/ buttonPressed
  \/ useEffect_poll
  \/ \E l \in 1..MaxEffectRuns : pollTimer(l)
  \/ \E l \in 1..MaxEffectRuns : fetchTrigger(l)
  \/ \E l \in 1..MaxEffectRuns, failed \in BOOLEAN : checkTrigger(l, failed)

(***************************************************************************)
(* app/api/events/route.ts, lib/eventEmitter.ts: the event streams         *)
(***************************************************************************)
\* event streams opened in all
MaxStreams == 6

\* a stream of GET /api/events: open or cancelled, and the chunks its
\* controller has enqueued
Stream(state, enqueued) == [state |-> state, enqueued |-> enqueued]

\* GET /api/events: new ReadableStream({ start(controller) {...} }).  start
\* runs at once: it enqueues 'data: connected' and registers handleCapture,
\* which closes over this stream's controller, on the shared emitter
GET_events ==
  /\ Len(streams) < MaxStreams
  /\ streams' = Append(streams, Stream("open", <<"data: connected">>))
  /\ listeners' = Append(listeners, Len(streams) + 1)
  /\ UNCHANGED <<lastTriggerRef, pollers, captures, lastAttemptTime, attempts,
                 announced>>
  /\ UNCHANGED triggerVars
  /\ UNCHANGED serverVars

\* the client of stream i disconnects: the stream is cancelled.  The
\* underlying source has no cancel(); the function that start() returned is
\* not a promise, a ReadableStream does not call it, so eventEmitter.off is
\* never run
cancelStream(i) ==
  /\ i \in 1..Len(streams)
  /\ streams[i].state = "open"
  /\ streams' = [streams EXCEPT ![i].state = "cancelled"]
  /\ UNCHANGED <<lastTriggerRef, pollers, captures, lastAttemptTime, attempts,
                 listeners, announced>>
  /\ UNCHANGED triggerVars
  /\ UNCHANGED serverVars

\* the event streams and their clients
EventsNext ==
  \/ GET_events
  \/ \E i \in 1..MaxStreams : cancelStream(i)

\* app/page.tsx, ws.onmessage: the page of observer o is handed an event that
\* the latest handler run sent to it.  Only access_attempt events change what
\* the page shows; of the user_registered events the ids are kept here
onmessage(o) ==
  /\ out.handler \in {"register", "recognize"}
  /\ \E d \in out.sent :
       /\ d.to = o
       /\ announced' = IF d.msg.type = "user_registered"
                         THEN announced \cup {d.msg.user.id}
                         ELSE announced
  /\ UNCHANGED <<lastTriggerRef, pollers, captures, lastAttemptTime, attempts,
                 listeners, streams>>
  /\ UNCHANGED triggerVars
  /\ UNCHANGED serverVars

Next ==
  \/ \E modelsLoaded \in BOOLEAN, write \in WriteOutcomes :
       initializeFaceAPI(modelsLoaded, write)
  \/ Restart
  \/ \E handler \in {"register", "recognize"} : Receive(handler)
  \/ \E name \in Names \cup {""}, image \in Images : registerHandler(name, image)
  \/ \E image \in Images : recognizeHandler(image)

\* the requests sent to the server while its observers are modelled: one
\* name, or none; no image, bytes that are no image, a picture without a
\* face, two faces 0.81 apart
ObservedNames == {"Alice", ""}
ObservedImages ==
  {[kind |-> "missing"], [kind |-> "undecodable"], [kind |-> "noface"],
   [kind |-> "face", descriptor |-> <<0, 0>>],
   [kind |-> "face", descriptor |-> <<81, 0>>]}

ObservedNext ==
  \/ \E modelsLoaded \in BOOLEAN, write \in WriteOutcomes :
       initializeFaceAPI(modelsLoaded, write)
  \/ Restart
  \/ \E handler \in {"register", "recognize"} : Receive(handler)
  \/ \E name \in ObservedNames, image \in ObservedImages :
       registerHandler(name, image)
  \/ \E image \in ObservedImages : recognizeHandler(image)
  \/ \E o \in Observers : ObserverConnects(o)
  \/ \E o \in Observers : ObserverCloses(o)

Init == TriggerInit /\ ServerInit /\ ClientInit

\* the backend server while no observer connects
Spec == Init /\ [][Next]_vars

\* the backend server and its observers
ObservedSpec == Init /\ [][ObservedNext]_vars

\* the backend server and observers whose pages take in what they are sent
AnnouncedNext ==
  \/ \E modelsLoaded \in BOOLEAN, write \in WriteOutcomes :
       initializeFaceAPI(modelsLoaded, write)
  \/ Restart
  \/ \E handler \in {"register", "recognize"} : Receive(handler)
  \/ \E name \in ObservedNames, image \in ObservedImages :
       registerHandler(name, image)
  \/ \E image \in ObservedImages : recognizeHandler(image)
  \/ \E o \in Observers : ObserverConnects(o)
  \/ \E o \in Observers : ObserverCloses(o)
  \/ \E o \in Observers : onmessage(o)

FrontNext ==
  \/ \E modelsLoaded \in BOOLEAN, write \in WriteOutcomes :
       initializeFaceAPI(modelsLoaded, write)
  \/ Restart
  \/ \E handler \in {"register", "recognize"} : Receive(handler)
  \/ \E name \in ObservedNames, image \in ObservedImages :
       registerHandler(name, image)
  \/ \E image \in ObservedImages : recognizeHandler(image)
  \/ \E parsed \in BOOLEAN : registerRoute(parsed)
  \/ \E parsed \in BOOLEAN : recognizeRoute(parsed)

\* the requests of concurrent registrations: one name, two faces
ConcurrentImages ==
  {[kind |-> "face", descriptor |-> <<0, 0>>],
   [kind |-> "face", descriptor |-> <<81, 0>>]}

ConcurrentNext ==
  \/ \E modelsLoaded \in BOOLEAN, write \in WriteOutcomes :
       initializeFaceAPI(modelsLoaded, write)
  \/ Restart
  \/ ReceiveConcurrently("register")
  \/ \E image \in ConcurrentImages : registerHandler("Alice", image)

\* the backend server handling registrations at the same time
ConcurrentSpec == Init /\ [][ConcurrentNext]_vars

\* the backend server behind the two routes, while no observer connects
FrontSpec == Init /\ [][FrontNext]_vars

TriggerNext ==
  \/ Tick
  \/ POST_triggerCapture
  \/ GET_triggerCapture
  \/ triggerCaptureHandler

\* the trigger gate, beside a backend that is starting for the first time
TriggerStart == Init /\ usersFile = File("missing", Null)

TriggerSpec == TriggerStart /\ [][TriggerNext]_vars

ClientSpec == TriggerStart /\ [][ClientNext]_vars

EventsSpec == TriggerStart /\ [][EventsNext]_vars

AnnouncedSpec == Init /\ [][AnnouncedNext]_vars

(***************************************************************************)
(* Properties of the trigger gate                                          *)
(***************************************************************************)
LastCall == calls[Len(calls)]
\* this step is a call of the given kind
Called(op) == Len(calls') = Len(calls) + 1 /\ calls'[Len(calls')].op = op
\* positions of the log that hold calls of setTrigger / of triggerState.ts
SetCalls == {i \in 1..Len(calls) : calls[i].op = "POST"}
GateCalls == {i \in 1..Len(calls) : calls[i].op \in {"POST", "GET"}}

\* C1: a setTrigger() call at time now sets lastTrigger to now and returns now
\* if and only if now - lastTrigger >= 3000; otherwise lastTrigger is unchanged
\* and the stored value is returned.
C1_SetTriggerContract ==
  [][Called("POST") =>
       IF now - lastTrigger >= 3000
         THEN lastTrigger' = now /\ calls'[Len(calls')].ret = now
         ELSE lastTrigger' = lastTrigger /\ calls'[Len(calls')].ret = lastTrigger
    ]_vars

\* a trigger accepted exactly 3000 ms after the previous accepted one,
\* followed by a rejected one
C1_Witness ==
  \E i, j, k \in SetCalls :
    /\ i < j /\ j < k
    /\ calls[i].ret = calls[i].at
    /\ calls[j].at = calls[i].at + 3000 /\ calls[j].ret = calls[j].at
    /\ calls[k].at > calls[j].at /\ calls[k].ret = calls[j].at

\* C2: any two distinct values taken by lastTrigger through trigger requests
\* differ by at least 3000 ms.
C2_AcceptedTriggersApart ==
  \A i, j \in SetCalls :
    calls[i].ret < calls[j].ret => calls[j].ret - calls[i].ret >= 3000

\* three requests inside one cooldown window, one accepted trigger
C2_Witness ==
  /\ Len(calls) = 3
  /\ \A i \in 1..3 : calls[i].op = "POST" /\ calls[i].ret = calls[1].at
  /\ calls[1].at < calls[2].at /\ calls[2].at < calls[3].at

\* C3 as stated: two setTrigger() calls less than 3000 ms apart return the
\* same timestamp, and a call made 3000 ms or more after an earlier call
\* returns a strictly greater timestamp.
C3_Original_CallsApart ==
  \A i, j \in SetCalls :
    i < j =>
      /\ calls[j].at - calls[i].at < 3000 => calls[j].ret = calls[i].ret
      /\ calls[j].at - calls[i].at >= 3000 => calls[j].ret > calls[i].ret

\* C3 (amended): a setTrigger() call made less than 3000 ms after the
\* timestamp returned by an earlier call returns that same timestamp, and a
\* call made 3000 ms or more after an earlier call returns a strictly greater
\* timestamp than that call did.
C3_DebounceIdempotence ==
  \A i, j \in SetCalls :
    i < j =>
      /\ calls[j].at - calls[i].ret < 3000 => calls[j].ret = calls[i].ret
      /\ calls[j].at - calls[i].at >= 3000 => calls[j].ret > calls[i].ret

\* a call, a second one 500 ms later with the same answer, a third one past
\* the cooldown with a greater answer
C3_Witness ==
  \E i, j, k \in SetCalls :
    /\ i < j /\ j < k
    /\ calls[i].ret = calls[i].at
    /\ calls[j].at = calls[i].at + 500 /\ calls[j].ret = calls[i].ret
    /\ calls[k].at >= calls[i].at + 3000 /\ calls[k].ret > calls[j].ret

\* C4: lastTrigger never decreases, and over the calls of setTrigger() and
\* getTrigger() a later call never returns less than an earlier call.
C4_MonotoneTimestamp ==
  /\ [](\A i, j \in GateCalls : i < j => calls[i].ret <= calls[j].ret)
  /\ [][lastTrigger' >= lastTrigger]_vars

\* a rejected setTrigger() between an accepted one and a getTrigger()
C4_Witness ==
  \E i, j, k \in GateCalls :
    /\ i < j /\ j < k
    /\ calls[i].op = "POST" /\ calls[i].ret = calls[i].at
    /\ calls[j].op = "POST" /\ calls[j].at > calls[i].at
    /\ calls[j].ret = calls[i].ret
    /\ calls[k].op = "GET" /\ calls[k].ret = calls[i].ret

\* C5: a read of the trigger state (getTrigger(), the GET handler of the
\* Next.js route, the GET handler of the backend server) answers with the
\* stored timestamp and leaves it unchanged.
C5_ReadsDoNotMutate ==
  [][/\ Called("GET") =>
          /\ lastTrigger' = lastTrigger
          /\ calls'[Len(calls')].ret = lastTrigger
     /\ Called("BACKEND_GET") =>
          /\ lastTriggerTimestamp' = lastTriggerTimestamp
          /\ calls'[Len(calls')].ret = lastTriggerTimestamp
    ]_vars

(***************************************************************************)
(* Properties of registration and verification                             *)
(***************************************************************************)
\* this step is a run of the handler
Ran(handler) ==
  /\ inFlight'[handler] = inFlight[handler] - 1
  /\ out'.handler = handler

\* The registry changes only in a run of registerHandler, in
\* initializeFaceAPI and in a restart; the first sets `out` anew and the
\* other two happen while `out` is NoOutcome.  Hence whenever `out` is a run
\* of recognizeHandler, registeredUsers is the registry that run scanned.
RegistryAsScanned ==
  [][out'.handler = "recognize" => registeredUsers' = registeredUsers]_vars

Identity(e) == [id |-> e.id, name |-> e.name]
\* the distances from the probe to the stored descriptors, and the least one
DistanceAt(users, probe, i) == euclideanDistance(probe, users[i].descriptor)
Distances(users, probe) ==
  {DistanceAt(users, probe, i) : i \in 1..Len(users)}
MinDistance(users, probe) ==
  CHOOSE m \in Distances(users, probe) :
    \A d \in Distances(users, probe) : m <= d
\* the first place, in the map's iteration order, of a record that satisfies P
FirstWhere(users, P(_)) ==
  CHOOSE i \in 1..Len(users) :
    P(i) /\ \A j \in 1..Len(users) : P(j) => i <= j

\* C6: a registration that answers success:true adds exactly one record to
\* the store, under an id that no record of the store had.
C6_RegistrationAddsOneRecord ==
  [][(Ran("register") /\ out'.status = 200) =>
       /\ Len(registeredUsers') = Len(registeredUsers) + 1
       /\ ~HasKey(registeredUsers, out'.body.user.id)
       /\ HasKey(registeredUsers', out'.body.user.id)
    ]_vars

\* C7 as stated: every verify call handled while the registry is empty gets
\* the answer 400 'No registered users', whatever the image and the
\* detector's result.
C7_Original_EmptyRegistryAlways ==
  (out.handler = "recognize" /\ Len(registeredUsers) = 0) =>
    /\ out.status = 400
    /\ out.body.error = "No registered users"

\* C7 (amended): a verify call handled while the registry is empty never
\* answers with a match, and it gets the answer 400 'No registered users'
\* whenever its image is present, decodes and shows a face.
C7_EmptyRegistryError ==
  (out.handler = "recognize" /\ Len(registeredUsers) = 0) =>
    /\ out.status # 200
    /\ out.sent = {}
    /\ detectSingleFace(out.req.image) # Null =>
         /\ out.status = 400
         /\ out.body.error = "No registered users"

\* the empty-registry answer to a picture of a face, the registry being empty
C7_Witness ==
  /\ out.handler = "recognize"
  /\ out.req.image.kind = "face"
  /\ out.status = 400
  /\ out.body.error = "No registered users"
  /\ registeredUsers = Null

\* C8: a verify call that reaches the decision answers success:true if the
\* least distance from the probe to the stored descriptors is <= 0.45 and
\* success:false otherwise.
C8_DecisionByMinDistance ==
  (out.handler = "recognize" /\ detectSingleFace(out.req.image) # Null
     /\ Len(registeredUsers) > 0) =>
    /\ out.status = 200
    /\ out.body.success
         = (MinDistance(registeredUsers, out.req.image.descriptor) <= 45)

\* an acceptance at the distance 0.45 itself, from a registry of two records
C8_Witness ==
  /\ out.handler = "recognize"
  /\ out.status = 200
  /\ out.body.success
  /\ Len(registeredUsers) = 2
  /\ MinDistance(registeredUsers, out.req.image.descriptor) = 45

\* C9: on acceptance the user returned is the first record, in the map's
\* iteration order, among those at the least distance from the probe.
C9_NearestFirstSeen ==
  (out.handler = "recognize" /\ out.status = 200 /\ out.body.success) =>
    LET probe == out.req.image.descriptor
        AtMin(i) == DistanceAt(registeredUsers, probe, i)
                      = MinDistance(registeredUsers, probe)
    IN out.body.user
         = Identity(registeredUsers[FirstWhere(registeredUsers, AtMin)])

\* an acceptance from a registry whose two records have the same descriptor
\* and different names: a tie
C9_Witness ==
  /\ out.handler = "recognize"
  /\ out.status = 200
  /\ out.body.success
  /\ Len(registeredUsers) = 2
  /\ registeredUsers[1].descriptor = registeredUsers[2].descriptor
  /\ registeredUsers[1].name # registeredUsers[2].name
  /\ out.body.user = Identity(registeredUsers[1])

\* C10 as stated: for a probe equal to the descriptor of a stored record,
\* verify accepts, returns the identity of that record and confidence 1.0.
C10_Original_ThatRecord ==
  (out.handler = "recognize" /\ detectSingleFace(out.req.image) # Null) =>
    \A i \in 1..Len(registeredUsers) :
      registeredUsers[i].descriptor = out.req.image.descriptor =>
        /\ out.status = 200
        /\ out.body.success
        /\ out.body.user = Identity(registeredUsers[i])
        /\ out.body.confidence = 100

\* C10 (amended): for a probe equal to the descriptor of some stored record,
\* verify accepts, returns the identity of the first record, in the map's
\* iteration order, that has this descriptor, and confidence 1.0.
C10_ExactMatch ==
  (out.handler = "recognize" /\ detectSingleFace(out.req.image) # Null
     /\ \E i \in 1..Len(registeredUsers) :
          registeredUsers[i].descriptor = out.req.image.descriptor) =>
    LET Same(i) == registeredUsers[i].descriptor = out.req.image.descriptor
    IN /\ out.status = 200
       /\ out.body.success
       /\ out.body.user
            = Identity(registeredUsers[FirstWhere(registeredUsers, Same)])
       /\ out.body.confidence = 100

\* an acceptance with confidence 1.0 of the second record of the registry,
\* whose descriptor is the probe
C10_Witness ==
  /\ out.handler = "recognize"
  /\ out.status = 200
  /\ out.body.success
  /\ out.body.confidence = 100
  /\ Len(registeredUsers) = 2
  /\ registeredUsers[2].descriptor = out.req.image.descriptor
  /\ out.body.user = Identity(registeredUsers[2])

\* the larger of two numbers
Max(a, b) == IF a >= b THEN a ELSE b

\* C11: a verify call whose probe is farther than 0.45 from every stored
\* descriptor answers success:false with a confidence between 0 and 1:
\* max(0, 1 - distance) when the least distance is <= 1, and 0 when it is > 1.
C11_RejectConfidenceBounded ==
  (out.handler = "recognize" /\ detectSingleFace(out.req.image) # Null
     /\ Len(registeredUsers) > 0
     /\ MinDistance(registeredUsers, out.req.image.descriptor) > 45) =>
    LET distance == MinDistance(registeredUsers, out.req.image.descriptor)
    IN /\ out.status = 200
       /\ out.body.success = FALSE
       /\ out.body.confidence >= 0
       /\ out.body.confidence <= 100
       /\ out.body.confidence
            = (IF distance <= 100 THEN Max(0, 100 - distance) ELSE 0)

\* a rejection at a least distance above 1.0, from a registry of two records,
\* with confidence 0
C11_Witness ==
  /\ out.handler = "recognize"
  /\ out.status = 200
  /\ out.body.success = FALSE
  /\ Len(registeredUsers) = 2
  /\ MinDistance(registeredUsers, out.req.image.descriptor) > 100
  /\ out.body.confidence = 0

\* C12: a verify call, whatever its path (match, denial, missing image, no
\* face, empty registry, internal error), leaves the in-memory registry and
\* users.json as they were before the call.
C12_VerifyPersistsNothing ==
  [][Ran("recognize") =>
       /\ registeredUsers' = registeredUsers
       /\ usersFile' = usersFile
    ]_vars

\* a match at a distance above 0 (a learning verification would have stored
\* the probe), registry and users.json holding the same two records
C12_Witness ==
  /\ out.handler = "recognize"
  /\ out.status = 200
  /\ out.body.success
  /\ out.body.confidence < 100
  /\ Len(registeredUsers) = 2
  /\ usersFile = File("ok", JSONstringify(registeredUsers))

\* C13: a register call without a name or without an image, or in whose
\* image the detector finds no face, answers 400 and changes nothing: the
\* registry and users.json stay as they were (so no id enters the store),
\* no message goes to the observers, and the detector is called at most
\* once (never for the missing field, once for the faceless picture).
C13_FailedRegistrationNoEffect ==
  [][(/\ Ran("register")
      /\ \/ out'.req.name = ""
         \/ out'.req.image.kind = "missing"
         \/ out'.req.image.kind = "noface") =>
       LET missing == out'.req.name = "" \/ out'.req.image.kind = "missing"
       IN /\ out'.status = 400
          /\ out'.body.error = (IF missing THEN "Missing required fields"
                                ELSE "No face detected")
          /\ registeredUsers' = registeredUsers
          /\ usersFile' = usersFile
          /\ out'.sent = {}
          /\ out'.detections = (IF missing THEN 0 ELSE 1)
    ]_vars

\* a registration refused for want of a face while an observer is listening
\* and the store holds a record
C13_Witness ==
  /\ out.handler = "register"
  /\ out.status = 400
  /\ out.body.error = "No face detected"
  /\ out.sent = {}
  /\ \E o \in Observers : wssClients[o] = 1
  /\ Len(registeredUsers) = 1
  /\ usersFile = File("ok", JSONstringify(registeredUsers))

\* the records of a mapping, as a set
Records(users) == {users[i] : i \in 1..Len(users)}

\* the mapping that the text of users.json denotes, as a set of records: of
\* the members that have the same key, the last one counts
FileMapping(file) ==
  {Entry(file.text[i][1], file.text[i][2], file.text[i][3]) :
     i \in {k \in 1..Len(file.text) :
              \A j \in (k + 1)..Len(file.text) :
                file.text[j][1] # file.text[k][1]}}

\* C14: a record that is in the store stays in it, with the same id, name
\* and descriptor, through every registration and every verification, and
\* the records of users.json are in the registry again after a restart.
C14_RecordsAreKept ==
  [][/\ (Ran("register") \/ Ran("recognize")) =>
          /\ Records(registeredUsers) \subseteq Records(registeredUsers')
          /\ FileMapping(usersFile) \subseteq FileMapping(usersFile')
     /\ (phase = "starting" /\ phase' = "listening") =>
          FileMapping(usersFile) \subseteq Records(registeredUsers')
    ]_vars

\* C15: after a registration that answers success:true and whose write of
\* users.json succeeded, the registry and users.json hold the same mapping
\* of id to {name, descriptor}, one record for each id.
C15_RegistryEqualsFile ==
  (out.handler = "register" /\ out.status = 200 /\ out.written) =>
    /\ usersFile.kind = "ok"
    /\ FileMapping(usersFile) = Records(registeredUsers)
    /\ Cardinality({e.id : e \in Records(registeredUsers)})
         = Len(registeredUsers)

\* a second registration written to users.json: two records in both places
C15_Witness ==
  /\ out.handler = "register"
  /\ out.status = 200
  /\ out.written
  /\ Len(registeredUsers) = 2
  /\ Len(usersFile.text) = 2
  /\ out.body.user.id = "k3"

\* C16: when the models have loaded, the start of the service does not fail
\* whatever users.json holds: a missing, empty or malformed file gives an
\* empty registry and a users.json holding {}, a well-formed file gives a
\* registry equal to the file's mapping.
C16_LoadNeverFails ==
  [][(phase = "starting" /\ out'.handler = "initializeFaceAPI"
        /\ out'.modelsLoaded) =>
       /\ phase' = "listening"
       /\ usersFile.kind # "ok" =>
            /\ registeredUsers' = Null
            /\ usersFile' = EmptyObjectFile
       /\ usersFile.kind = "ok" =>
            /\ Records(registeredUsers') = FileMapping(usersFile)
            /\ usersFile' = usersFile
    ]_vars

\* the store contents that registrations produce: at most one record for
\* each id, in property order
Entries ==
  {Entry(id, name, d) : id \in Ids, name \in Names, d \in Descriptors}
Stores ==
  {<< >>} \cup {<<e>> : e \in Entries}
    \cup {<<e, f>> : e \in {x \in Entries : x.id \in ArrayIndexIds},
                      f \in {x \in Entries : x.id \notin ArrayIndexIds}}

\* C17: whenever users.json holds the text that persisting a store content
\* gives, the load at startup yields that store content again: the same
\* ids with the same names and descriptors.
C17_PersistReloadRoundTrip ==
  [][(phase = "starting" /\ phase' = "listening") =>
       \A store \in Stores :
         usersFile = File("ok", JSONstringify(store)) =>
           /\ registeredUsers' = store
           /\ Records(registeredUsers') = Records(store)
    ]_vars

\* the registry after a restart, holding again the two records that two
\* registrations of Alice had persisted
C17_Witness ==
  /\ phase = "listening"
  /\ out = Started(TRUE)
  /\ Len(registeredUsers) = 2
  /\ \A i \in 1..2 : registeredUsers[i].name = "Alice"
  /\ registeredUsers[1].descriptor # registeredUsers[2].descriptor
  /\ usersFile = File("ok", JSONstringify(registeredUsers))

\* the event messages of the model that carry no descriptor: the type and
\* the fields of each kind, none of them a descriptor or a stored record
CarriesNoDescriptor(msg) ==
  /\ "descriptor" \notin DOMAIN msg
  /\ msg.type \in {"user_registered", "access_attempt"}
  /\ msg.type = "user_registered" =>
       /\ DOMAIN msg = {"type", "user"}
       /\ DOMAIN msg.user = {"id", "name"}
       /\ msg.user.id \in Ids
       /\ msg.user.name \in Names
  /\ msg.type = "access_attempt" =>
       /\ DOMAIN msg = {"type", "success", "message"}
       /\ msg.success \in BOOLEAN
       /\ msg.message \in {"Access denied: Face not recognized"}
                             \cup {"Access granted to " \o n : n \in Names}

\* C18: no message sent to an observer contains a face descriptor: a
\* user_registered event holds the new user's id and name and nothing else,
\* an access_attempt event holds success and a message and nothing else.
C18_NoDescriptorBroadcast ==
  out.handler \in {"register", "recognize"} =>
    \A s \in out.sent : CarriesNoDescriptor(s.msg)

\* a match announced to two observers
C18_Witness ==
  /\ out.handler = "recognize"
  /\ out.status = 200
  /\ out.body.success
  /\ {s.to : s \in out.sent} = Observers
  /\ \A s \in out.sent : s.msg.type = "access_attempt"

\* C19 as stated: when verify accepts, every access_attempt event it sends
\* has success:true, a message and the matched user, and the answer holds
\* the same user's identity and the confidence.
C19_Original_EventHasUser ==
  (out.handler = "recognize" /\ out.status = 200 /\ out.body.success) =>
    /\ {"user", "confidence"} \subseteq DOMAIN out.body
    /\ \A s \in out.sent :
         /\ s.msg.type = "access_attempt"
         /\ s.msg.success
         /\ "message" \in DOMAIN s.msg
         /\ "user" \in DOMAIN s.msg
         /\ Identity(s.msg.user) = out.body.user

\* C19 (amended): when verify accepts, every access_attempt event it sends
\* has success:true and the message 'Access granted to <name>' with the
\* matched user's name, and no other field; the answer holds the matched
\* user's id and name and the confidence.
C19_AcceptEvent ==
  (out.handler = "recognize" /\ out.status = 200 /\ out.body.success) =>
    LET probe == out.req.image.descriptor
        AtMin(i) == DistanceAt(registeredUsers, probe, i)
                      = MinDistance(registeredUsers, probe)
        matched == registeredUsers[FirstWhere(registeredUsers, AtMin)]
    IN /\ DOMAIN out.body = {"success", "user", "confidence"}
       /\ out.body.user = Identity(matched)
       /\ \A s \in out.sent :
            /\ DOMAIN s.msg = {"type", "success", "message"}
            /\ s.msg.type = "access_attempt"
            /\ s.msg.success
            /\ s.msg.message = "Access granted to " \o matched.name

\* a match of the second of two records announced to an observer
C19_Witness ==
  /\ out.handler = "recognize"
  /\ out.status = 200
  /\ out.body.success
  /\ out.sent # {}
  /\ Len(registeredUsers) = 2
  /\ out.body.user = Identity(registeredUsers[2])

\* C20: a verify call that rejects sends access_attempt{success:false,
\* message} and is answered with status 200 and the body {success:false,
\* message, confidence}; the route /api/recognize passes this answer on
\* with status 200 and the same body.
C20_DenialIsNotAnError ==
  (out.handler = "recognize" /\ detectSingleFace(out.req.image) # Null
     /\ Len(registeredUsers) > 0
     /\ MinDistance(registeredUsers, out.req.image.descriptor) > 45) =>
    /\ out.status = 200
    /\ DOMAIN out.body = {"success", "message", "confidence"}
    /\ out.body.success = FALSE
    /\ \A s \in out.sent :
         /\ DOMAIN s.msg = {"type", "success", "message"}
         /\ s.msg.type = "access_attempt"
         /\ s.msg.success = FALSE
    /\ POST_recognize(out).status = 200
    /\ POST_recognize(out).body = out.body

\* a denial announced to an observer
C20_Witness ==
  /\ out.handler = "recognize"
  /\ out.status = 200
  /\ out.body.success = FALSE
  /\ out.body.message = "Face not recognized"
  /\ \E s \in out.sent : s.msg = accessDenied
  /\ POST_recognize(out).status = 200

\* the observers whose socket is open
Ready == {o \in Observers : wssClients[o] = 1}

\* C21: a handler run that broadcasts calls client.send exactly once for
\* each observer that is ready at that moment and for no other observer,
\* all with the same event; what a run has sent never grows afterwards (an
\* observer that connects later is sent nothing of it); a run with no ready
\* observer sends nothing, leaves the observers as they are and still
\* answers 200.
C21_ExactlyOnceToReady ==
  [][/\ ((Ran("register") \/ Ran("recognize")) /\ out'.status = 200) =>
          /\ {d.to : d \in BagToSet(out'.sends)} = Ready
          /\ \A d \in BagToSet(out'.sends) : CopiesIn(d, out'.sends) = 1
          /\ BagCardinality(out'.sends) = Cardinality(Ready)
          /\ \A d, e \in BagToSet(out'.sends) : d.msg = e.msg
          /\ wssClients' = wssClients
     /\ (/\ out'.handler \in {"register", "recognize"}
         /\ ~(Ran("register") \/ Ran("recognize"))) =>
          out' = out
    ]_vars

\* an event sent to the one ready observer while the other observer's
\* socket is closing
C21_Witness ==
  /\ out.handler = "register"
  /\ out.status = 200
  /\ BagCardinality(out.sends) = 1
  /\ \E o \in Observers : wssClients[o] = 2
  /\ \A d \in BagToSet(out.sends) : wssClients[d.to] = 1

\* the backend's answers that reject a request for what it holds or for
\* the empty registry
RejectionErrors ==
  {"Missing required fields", "Missing image", "No face detected",
   "No registered users"}
IsRejection(response) ==
  /\ "handler" \in DOMAIN response
  /\ response.handler \in {"register", "recognize"}
  /\ "error" \in DOMAIN response.body
  /\ response.body.error \in RejectionErrors

\* C22: a register or verify request that the backend rejects for missing
\* fields, no detected face or an empty registry is answered with status
\* 400, to a direct caller of the backend and to a caller of the Next.js
\* route alike, and status 500 is given to other failures only.
C22_RejectionsAre400 ==
  /\ IsRejection(out) => out.status = 400
  /\ (out.handler \in {"register", "recognize"} /\ out.status = 500) =>
       ~IsRejection(out)
  /\ \A i \in 1..Len(calls) :
       /\ IsRejection(calls[i].ret.fetched) => calls[i].ret.status = 400
       /\ calls[i].ret.status = 500 => ~IsRejection(calls[i].ret.fetched)

\* C23: a call of the register or recognize route is answered with status
\* 503 when the backend is unreachable (the fetch fails) and in no other
\* case: a rejection or an error of the backend, a timeout and a body that
\* does not parse get another status; and each call makes at most one
\* fetch of the backend, also when the fetch ends by the 30 s timeout.
C23_UnreachableIs503 ==
  \A i \in 1..Len(calls) :
    LET call == calls[i].ret
    IN /\ (call.status = 503) <=> (call.fetched = FetchFailed)
       /\ call.fetches <= 1
       /\ call.fetched = FetchTimeout =>
            (call.fetches = 1 /\ call.status = 500)
       /\ IsRejection(call.fetched) => call.status # 503

\* the recognize route answering 503 while the backend process has exited
C23_Witness ==
  /\ phase = "exited"
  /\ Len(calls) = 1
  /\ calls[1].op = "recognize"
  /\ calls[1].ret.status = 503
  /\ calls[1].ret.fetches = 1

\* a registration ends with success, writes users.json, and the store it
\* leaves lacks the record that the registration before it had added under
\* another id
LosesLatestRecord ==
  /\ \E image \in ConcurrentImages : registerHandler("Alice", image)
  /\ out'.status = 200
  /\ out'.written
  /\ out'.body.user.id # out.body.user.id
  /\ \/ ~HasKey(registeredUsers', out.body.user.id)
     \/ \A e \in FileMapping(usersFile') : e.id # out.body.user.id

C25_WriteFailureOnlyLogged ==
  [][(Ran("register") /\ out'.status = 200 /\ ~out'.written) =>
       LET new == Entry(out'.body.user.id, out'.req.name,
                        out'.req.image.descriptor)
       IN /\ new \in Records(registeredUsers')
          /\ out'.body = [success |-> TRUE,
                          user |-> [id |-> new.id, name |-> new.name]]
          /\ {d.to : d \in out'.sent} = Ready
          /\ \A d \in out'.sent : d.msg = userRegistered(new.id, new.name)
          /\ usersFile' = usersFile
          /\ \E e \in Records(registeredUsers') :
               e \notin FileMapping(usersFile')
    ]_vars

(***************************************************************************)
(* Properties of the verify page                                           *)
(***************************************************************************)
\* the step resumes checkTrigger in run l with a parsed answer
Resumed(l) ==
  /\ Len(pollers[l].response) = 2
  /\ pollers'[l].response # pollers[l].response

\* what a step that resumes checkTrigger does to the captures
CapturesAsPolled ==
  /\ \A l \in DOMAIN pollers :
       Resumed(l) =>
         LET timestamp == pollers[l].response[2]
         IN IF timestamp > lastTriggerRef
              THEN /\ captures' = Append(captures, Capture(timestamp))
                   /\ lastTriggerRef' = timestamp
              ELSE /\ captures' = captures
                   /\ lastTriggerRef' = lastTriggerRef
  /\ captures' # captures => \E l \in DOMAIN pollers : Resumed(l)

\* every captured timestamp was accepted by the gate, and they increase
CapturesIncrease ==
  /\ \A i \in DOMAIN captures :
       /\ captures[i].timestamp # 0
       /\ captures[i].timestamp <= lastTrigger
       /\ captures[i].timestamp <= lastTriggerRef
  /\ \A i, j \in DOMAIN captures :
       i < j => captures[i].timestamp < captures[j].timestamp

\* C26: a poll loop calls captureImage only when the timestamp it polled is
\* strictly greater than lastTriggerRef.current, and it records that
\* timestamp in the same step; a poll that returns an unchanged (or older)
\* timestamp captures nothing.  Hence, whatever the number of overlapping
\* loops, the captured timestamps strictly increase: each is a timestamp
\* the gate accepted and none is captured twice
C26_CapturesOncePerTrigger ==
  [][CapturesAsPolled]_vars /\ []CapturesIncrease

\* two triggers were captured, and the poll of a run of the effect that was
\* cleaned up meanwhile has come back with the timestamp already recorded
C26_Witness ==
  /\ Len(captures) = 2
  /\ \E l \in DOMAIN pollers :
       /\ ~pollers[l].isPolling
       /\ pollers[l].response = <<"json", lastTriggerRef>>

\* C27: any two requests that handleVerify sends to /api/recognize are at
\* least 3000 ms apart: a capture handed to it less than 3000 ms after the
\* last attempt sends nothing and leaves lastAttemptTime as it is
C27_AttemptsThreeSecondsApart ==
  [][(/\ captures' # captures
      /\ lastAttemptTime # NoAttempt
      /\ now - lastAttemptTime < AttemptInterval)
       => /\ attempts' = attempts
          /\ lastAttemptTime' = lastAttemptTime]_vars

(***************************************************************************)
(* Properties of the event streams                                         *)
(***************************************************************************)
\* the streams whose client is connected
Connected == {i \in DOMAIN streams : streams[i].state = "open"}

\* C28: the 'capture-requested' listeners registered on the shared emitter
\* are as many as the connected event-stream clients, each the listener of a
\* connected client's stream, and a stream whose client has disconnected
\* holds nothing but what was enqueued while it was connected
C28_ListenersMatchClients ==
  /\ Len(listeners) = Cardinality(Connected)
  /\ \A k \in DOMAIN listeners : listeners[k] \in Connected
  /\ \A i \in DOMAIN streams : streams[i].enqueued = <<"data: connected">>

(***************************************************************************)
(* Properties of what the observers were told                              *)
(***************************************************************************)
\* C29: a successful registration sends user_registered for the id it has
\* just put in the registry (and in users.json when the write succeeded), in
\* the same step; therefore a verify request handled after an observer has
\* received user_registered for an id scans a registry that contains that id
C29_AnnouncedIsScanned ==
  /\ [][(Ran("register") /\ out'.status = 200) =>
          \A d \in out'.sent :
            /\ d.msg = userRegistered(out'.body.user.id, out'.req.name)
            /\ HasKey(registeredUsers', d.msg.user.id)
            /\ out'.written =>
                 \E e \in FileMapping(usersFile') : e.id = d.msg.user.id
       ]_vars
  /\ [](out.handler = "recognize" =>
          \A id \in announced : HasKey(registeredUsers, id))

\* C30: a verify call that reaches the match decision (accept or deny, status
\* 200) sends exactly one access_attempt event to each ready observer, and
\* the success flag of that event is the success flag of the call's result; a
\* call that ends with missing image, no face, empty registry or an internal
\* error sends nothing
C30_OneAttemptEvent ==
  [][Ran("recognize") =>
       IF out'.status = 200
         THEN /\ out'.body.success \in BOOLEAN
              /\ {d.to : d \in BagToSet(out'.sends)} = Ready
              /\ BagCardinality(out'.sends) = Cardinality(Ready)
              /\ \A d \in BagToSet(out'.sends) :
                   /\ CopiesIn(d, out'.sends) = 1
                   /\ d.msg.type = "access_attempt"
                   /\ d.msg.success = out'.body.success
         ELSE /\ out'.body.error \in {"Missing image", "No face detected",
                                      "No registered users", "Recognition failed"}
              /\ out'.sends = EmptyBag
    ]_vars

\* a denial announced to two observers
C30_Witness ==
  /\ out.handler = "recognize"
  /\ out.status = 200
  /\ ~out.body.success
  /\ BagCardinality(out.sends) = 2
  /\ \A d \in BagToSet(out.sends) : ~d.msg.success

====
